---- MODULE Spec2Model ----
(***************************************************************************)
(* The session guard of @adonisjs/auth (SessionGuard): the per-request     *)
(* authentication state machine, the request context it reads and writes   *)
(* (session store, cookies), the events it emits and the user provider it  *)
(* calls.                                                                  *)
(*                                                                         *)
(* Every async method is cut at its awaits: the code between two awaits    *)
(* runs to completion on the single JavaScript thread and is one action;   *)
(* other calls on the same guard, and other requests, may run while a call *)
(* is suspended.                                                           *)
(***************************************************************************)
EXTENDS Integers, Sequences, FiniteSets, TLC

\* Bounds of the model
MaxUserId == 2     \* user ids are 1..MaxUserId (database keys, never 0)
MaxCalls == 3      \* calls made on one guard during its request

UserIds == 1..MaxUserId

\* An optional value (undefined | v) is <<>> or <<v>>
None == <<>>
Some(v) == <<v>>
Opt(S) == {None} \cup {Some(v) : v \in S}

\* JavaScript truthiness of an optional id or cookie; ids are positive and
\* cookies are non-empty, so only undefined/null is falsy
Truthy(o) == o # None

VARIABLES
  users,      \* provider: ids of the rows of the users table
  tokens,     \* provider: the stored remember-me tokens
  minted,     \* provider: identifier of the last token minted
  ctx,        \* per request: the HttpContext (session, request and response cookies)
  arrived,    \* per request: the HttpContext as the request arrived (never changes)
  guard,      \* per request: the SessionGuard's public fields
  calls,      \* per request: the calls made on the guard, in order of invocation
  events,     \* per request: the events emitted, in order
  io,         \* per request: the session, cookie and provider operations, in order
  auth        \* the Auth object of a request: its mappings cache and its calls

vars == <<users, tokens, minted, ctx, arrived, guard, calls, events, io, auth>>

Reqs == DOMAIN guard

\* ------------------------------------------------------------------------
\* Guard keys

name == "web"
driverName == "session"
sessionKeyName == "auth_" \o name
rememberMeKeyName == "remember_" \o name

\* ------------------------------------------------------------------------
\* The user provider (SessionUserProviderContract)

\* A row of the users table and the provider's wrapper around it
UserRow(id) == [id |-> id, table |-> "users"]
ProviderUser(id) == [original |-> UserRow(id)]
getId(providerUser) == providerUser.original.id
getOriginal(providerUser) == providerUser.original

\* findById(id) -> ProviderUser | null
findById(id) == IF id \in users THEN Some(ProviderUser(id)) ELSE None

\* A remember-me token; its cookie carries identifier and secret
Token(identifier, tokenableId, expired) ==
  [identifier |-> identifier, secret |-> identifier, tokenableId |-> tokenableId,
   expired |-> expired]
CookieOf(token) == <<token.identifier, token.secret>>

\* verifyRememberToken(secret) -> Token | null
verifyRememberToken(cookie) ==
  LET match == {t \in tokens : CookieOf(t) = cookie /\ ~t.expired}
  IN IF match = {} THEN None ELSE Some(CHOOSE t \in match : TRUE)

\* recycleRememberToken(user, oldIdentifier) -> Token: the old token is
\* deleted and a new one minted for the same user
recycledToken(user) == Token(minted + 1, user.id, FALSE)
recycleRememberToken(user, oldIdentifier) ==
  {t \in tokens : t.identifier # oldIdentifier} \cup {recycledToken(user)}

\* ------------------------------------------------------------------------
\* Results of a call

Pending == [kind |-> "pending", user |-> None]
Returned(u) == [kind |-> "user", user |-> Some(u)]
Undefined == [kind |-> "undefined", user |-> None]
E_UNAUTHORIZED_ACCESS == [kind |-> "Unauthorized", user |-> None]
RuntimeException == [kind |-> "Configuration", user |-> None]
True == [kind |-> "true", user |-> None]
False == [kind |-> "false", user |-> None]

\* ------------------------------------------------------------------------
\* The request context: session store and cookies

\* The context of a request; without the session middleware it has no session
Context(hasSession, authUserId, rememberMeCookie) ==
  [hasSession |-> hasSession,
   sessionId |-> 1,
   session |-> (sessionKeyName :> authUserId),
   requestCookies |-> (rememberMeKeyName :> rememberMeCookie),
   responseCookies |-> (rememberMeKeyName :> None)]

\* The cookies a client may present: none, that of the token stored at the
\* start, or one whose secret does not match
PresentedCookies == {None, Some(<<1, 1>>), Some(<<1, 0>>)}

Contexts ==
  {Context(TRUE, id, cookie) : id \in Opt(UserIds), cookie \in PresentedCookies}
    \cup {Context(FALSE, None, cookie) : cookie \in PresentedCookies}

\* ------------------------------------------------------------------------
\* The guard

NewGuard ==
  [authenticationAttempted |-> FALSE,
   isAuthenticated |-> FALSE,
   viaRemember |-> FALSE,
   attemptedViaRemember |-> FALSE,
   isLoggedOut |-> FALSE,
   user |-> None]

\* One call on the guard: what was called, where it is suspended, whether it
\* entered the credential path, the outcome of authenticate() (result) and
\* what the caller got (out), the locals live across its awaits, and whether
\* every earlier call had returned when it began (alone)
Frame(op, pc, fresh, result, sessionId, userId, token) ==
  [op |-> op, pc |-> pc, fresh |-> fresh, result |-> result, out |-> Pending,
   sessionId |-> sessionId, userId |-> userId, token |-> token, alone |-> TRUE,
   during |-> "none"]

\* An emitted event: its name and payload, the call that emitted it, and
\* the number of session, cookie and provider operations done before it (at)
Event(evName, sessionId, user, rememberMeToken, error, i) ==
  [name |-> evName, guardName |-> name, sessionId |-> sessionId, user |-> user,
   rememberMeToken |-> rememberMeToken, error |-> error, call |-> i, at |-> 0]

\* The event just emitted, if any, is placed after the n operations done
Stamp(old, new, n) ==
  IF Len(new) > Len(old) THEN [new EXCEPT ![Len(new)].at = n] ELSE new

IO(op, i) == [op |-> op, call |-> i]

\* #getSession: the session of the context, or the RuntimeException
getSession(c) == IF c.hasSession THEN Some(c.sessionId) ELSE None

\* A slip: the error is built but the failure event is not emitted
authenticationFailed_NoEvent(evs, sessionId, i) == evs

\* #authenticationFailed: emits the failure event (the error is returned
\* to be thrown by the caller)
authenticationFailed(evs, sessionId, i) ==
  Append(evs, Event("session_auth:authentication_failed", sessionId, None, None,
                    Some(E_UNAUTHORIZED_ACCESS), i))

\* A slip: viaRemember computed as !rememberMeToken
authenticationSucceeded_NegatedRemember(g, evs, sessionId, user, rememberMeToken, i) ==
  [guard |-> [g EXCEPT !.user = Some(user),
                       !.isAuthenticated = TRUE,
                       !.isLoggedOut = FALSE,
                       !.viaRemember = (rememberMeToken = None)],
   events |-> Append(evs, Event("session_auth:authentication_succeeded", sessionId,
                                Some(user), rememberMeToken, None, i))]

\* A slip: the user is stored but the request is not marked authenticated
authenticationSucceeded_FlagForgotten(g, evs, sessionId, user, rememberMeToken, i) ==
  [guard |-> [g EXCEPT !.user = Some(user),
                       !.isLoggedOut = FALSE,
                       !.viaRemember = (rememberMeToken # None)],
   events |-> Append(evs, Event("session_auth:authentication_succeeded", sessionId,
                                Some(user), rememberMeToken, None, i))]

\* #authenticationSucceeded: updates the guard and emits the success event
authenticationSucceeded(g, evs, sessionId, user, rememberMeToken, i) ==
  [guard |-> [g EXCEPT !.user = Some(user),
                       !.isAuthenticated = TRUE,
                       !.isLoggedOut = FALSE,
                       !.viaRemember = (rememberMeToken # None)],
   events |-> Append(evs, Event("session_auth:authentication_succeeded", sessionId,
                                Some(user), rememberMeToken, None, i))]

\* A slip: the session is written but not regenerated
createSessionForUser_NoRegenerate(c, userId) ==
  [c EXCEPT !.session[sessionKeyName] = Some(userId)]

\* #createSessionForUser: session.put then session.regenerate
createSessionForUser(c, userId) ==
  [c EXCEPT !.session[sessionKeyName] = Some(userId),
            !.sessionId = @ + 1]

\* #createRememberMeCookie
createRememberMeCookie(c, value) ==
  [c EXCEPT !.responseCookies[rememberMeKeyName] = Some(value)]

\* A slip: no error when there is no user
getUserOrFail_Silent(g) ==
  IF g.user = None THEN Undefined ELSE Returned(g.user[1])

\* getUserOrFail: the cached user or the unauthorized error, no event
getUserOrFail(g) ==
  IF g.user = None THEN E_UNAUTHORIZED_ACCESS ELSE Returned(g.user[1])

\* check's try/catch around authenticate(): true on return, false on
\* E_UNAUTHORIZED_ACCESS, any other error rethrown
checkOutcome(result) ==
  IF result.kind \in {"user", "undefined"} THEN True
  ELSE IF result.kind = "Unauthorized" THEN False
  ELSE result

\* ------------------------------------------------------------------------
\* The Auth object: per-request cache of the instantiated mappings

\* The keys of GuardsList
Mappings == {"web", "api", "admin"}

\* A new Auth: an empty mappingsCache; made, traced and uses record the
\* calls of manager.makeMapping, of logger.trace and the results of use
NewAuth == [mappingsCache |-> <<>>, made |-> <<>>, traced |-> <<>>, uses |-> <<>>]

\* manager.makeMapping(ctx, mapping): a new instance at every call
makeMapping(mapping, serial) == [mapping |-> mapping, serial |-> serial]

\* mappingsCache.has(mapping)
mappingsCacheHas(cache, mapping) == mapping \in DOMAIN cache

\* A slip: the cache keeps one instance only
mappingsCacheSet_Single(cache, mapping, instance) == (mapping :> instance)

\* mappingsCache.set(mapping, instance)
mappingsCacheSet(cache, mapping, instance) == (mapping :> instance) @@ cache

\* ------------------------------------------------------------------------
\* The initial states: a provider with some users and at most one stored
\* token, and for each request a context and a fresh guard

InitReqs(R) ==
  /\ users \in SUBSET UserIds
  /\ tokens \in {{}} \cup {{Token(1, u, e)} : u \in UserIds, e \in BOOLEAN}
  /\ minted = 1
  /\ ctx \in [R -> Contexts]
  /\ arrived = ctx
  /\ guard = [r \in R |-> NewGuard]
  /\ calls = [r \in R |-> <<>>]
  /\ events = [r \in R |-> <<>>]
  /\ io = [r \in R |-> <<>>]
  /\ auth = NewAuth

Init == InitReqs({1})

\* ------------------------------------------------------------------------
\* authenticate(), from its entry to its first await (or to its return)

\* The awaits of the credential paths on the provider
AwaitingProvider ==
  {"findById", "verifyRememberToken", "findByIdRemember", "recycleRememberToken"}

\* A call begins: its frame is added to the calls of the guard and records whether every earlier call had
\* returned (alone) and which provider call an earlier call is awaiting (during)
Invoke(cs, frame) ==
  Append(cs, [frame EXCEPT
    !.alone = \A k \in DOMAIN cs : cs[k].pc = "returned",
    !.during = IF \E k \in DOMAIN cs : cs[k].pc \in AwaitingProvider
               THEN cs[CHOOSE k \in DOMAIN cs : cs[k].pc \in AwaitingProvider].pc
               ELSE "none"])

\* A slip: the attempt is not recorded
markAttempted_Forgotten(g) == g

\* "this.authenticationAttempted = true"
markAttempted(g) == [g EXCEPT !.authenticationAttempted = TRUE]

\* A change of behaviour: the missing credentials are made a failure
noCredentials_Thrown == E_UNAUTHORIZED_ACCESS

\* The end of authenticate() when neither credential is present: the
\* function ends without a return statement
noCredentials == Undefined

\* A slip: the session's user id is ignored
sessionHoldsUserId_Ignored(authUserId) == FALSE

\* "if (authUserId)"
sessionHoldsUserId(authUserId) == Truthy(authUserId)

authenticate(r, op) ==
  /\ Len(calls[r]) < MaxCalls
  /\ LET i == Len(calls[r]) + 1
         g == guard[r]
         c == ctx[r]
         attempted == [Event("session_auth:authentication_attempted", c.sessionId,
                             None, None, None, i) EXCEPT !.at = Len(io[r])]
         authUserId == c.session[sessionKeyName]
         rememberMeCookie == c.requestCookies[rememberMeKeyName]
     IN
     IF g.authenticationAttempted THEN
       \* return this.getUserOrFail()
       /\ calls' = [calls EXCEPT ![r] =
            Invoke(@, Frame(op, "settled", FALSE, getUserOrFail(g), 0, None, None))]
       /\ UNCHANGED <<auth, arrived, users, tokens, minted, ctx, guard, events, io>>
     ELSE IF getSession(c) = None THEN
       \* the flag is set, then #getSession throws
       /\ guard' = [guard EXCEPT ![r] = markAttempted(g)]
       /\ calls' = [calls EXCEPT ![r] =
            Invoke(@, Frame(op, "settled", TRUE, RuntimeException, 0, None, None))]
       /\ UNCHANGED <<auth, arrived, users, tokens, minted, ctx, events, io>>
     ELSE IF sessionHoldsUserId(authUserId) THEN
       \* #authenticateViaId up to "await findById"
       /\ guard' = [guard EXCEPT ![r] = markAttempted(g)]
       /\ events' = [events EXCEPT ![r] = Append(@, attempted)]
       /\ io' = [io EXCEPT ![r] = @ \o <<IO("session.get", i), IO("findById", i)>>]
       /\ calls' = [calls EXCEPT ![r] =
            Invoke(@, Frame(op, "findById", TRUE, Pending, c.sessionId, authUserId, None))]
       /\ UNCHANGED <<auth, arrived, users, tokens, minted, ctx>>
     ELSE IF Truthy(rememberMeCookie) THEN
       \* #authenticateViaRememberCookie up to "await verifyRememberToken"
       /\ guard' = [guard EXCEPT ![r] =
            [markAttempted(g) EXCEPT !.attemptedViaRemember = TRUE]]
       /\ events' = [events EXCEPT ![r] = Append(@, attempted)]
       /\ io' = [io EXCEPT ![r] = @ \o <<IO("session.get", i),
                                         IO("request.encryptedCookie", i),
                                         IO("verifyRememberToken", i)>>]
       /\ calls' = [calls EXCEPT ![r] =
            Invoke(@, Frame(op, "verifyRememberToken", TRUE, Pending, c.sessionId,
                            None, None))]
       /\ UNCHANGED <<auth, arrived, users, tokens, minted, ctx>>
     ELSE
       \* neither credential
       /\ guard' = [guard EXCEPT ![r] = markAttempted(g)]
       /\ events' = [events EXCEPT ![r] = Append(@, attempted)]
       /\ io' = [io EXCEPT ![r] = @ \o <<IO("session.get", i),
                                         IO("request.encryptedCookie", i)>>]
       /\ calls' = [calls EXCEPT ![r] =
            Invoke(@, Frame(op, "settled", TRUE, noCredentials, c.sessionId, None, None))]
       /\ UNCHANGED <<auth, arrived, users, tokens, minted, ctx>>

\* A direct call of authenticate()
callAuthenticate(r) == authenticate(r, "authenticate")

\* check(): calls authenticate() and awaits it
check(r) == authenticate(r, "check")

\* A direct call of getUserOrFail(): synchronous
callGetUserOrFail(r) ==
  /\ Len(calls[r]) < MaxCalls
  /\ calls' = [calls EXCEPT ![r] =
       Invoke(@, [Frame("getUserOrFail", "returned", FALSE, getUserOrFail(guard[r]),
                        0, None, None) EXCEPT !.out = getUserOrFail(guard[r])])]
  /\ UNCHANGED <<auth, arrived, users, tokens, minted, ctx, guard, events, io>>

\* ------------------------------------------------------------------------
\* The continuations after each await

\* #authenticateViaId after "await findById"
authenticateViaId(r, i) ==
  /\ i \in DOMAIN calls[r]
  /\ calls[r][i].pc = "findById"
  /\ LET f == calls[r][i]
         providerUser == findById(f.userId[1])
         ok == authenticationSucceeded(guard[r], events[r], f.sessionId,
                                       getOriginal(providerUser[1]), None, i)
     IN
     IF providerUser = None THEN
       /\ events' = [events EXCEPT ![r] =
            Stamp(@, authenticationFailed(@, f.sessionId, i), Len(io[r]))]
       /\ calls' = [calls EXCEPT ![r][i].pc = "settled",
                                 ![r][i].result = E_UNAUTHORIZED_ACCESS]
       /\ UNCHANGED guard
     ELSE
       /\ guard' = [guard EXCEPT ![r] = ok.guard]
       /\ events' = [events EXCEPT ![r] = Stamp(@, ok.events, Len(io[r]))]
       /\ calls' = [calls EXCEPT ![r][i].pc = "settled",
                                 ![r][i].result = Returned(ok.guard.user[1])]
  /\ UNCHANGED <<auth, arrived, users, tokens, minted, ctx, io>>

\* #authenticateViaRememberCookie after "await verifyRememberToken"
rememberTokenVerified(r, i) ==
  /\ i \in DOMAIN calls[r]
  /\ calls[r][i].pc = "verifyRememberToken"
  /\ LET f == calls[r][i]
         token == verifyRememberToken(ctx[r].requestCookies[rememberMeKeyName][1])
     IN
     IF token = None THEN
       /\ events' = [events EXCEPT ![r] =
            Stamp(@, authenticationFailed(@, f.sessionId, i), Len(io[r]))]
       /\ calls' = [calls EXCEPT ![r][i].pc = "settled",
                                 ![r][i].result = E_UNAUTHORIZED_ACCESS]
       /\ UNCHANGED io
     ELSE
       /\ io' = [io EXCEPT ![r] = Append(@, IO("findById", i))]
       /\ calls' = [calls EXCEPT ![r][i].pc = "findByIdRemember",
                                 ![r][i].token = token,
                                 ![r][i].userId = Some(token[1].tokenableId)]
       /\ UNCHANGED events
  /\ UNCHANGED <<auth, arrived, users, tokens, minted, ctx, guard>>

\* A slip: the session is regenerated before the id is put
createSessionForUserCalls_Swapped(i) ==
  <<IO("session.regenerate", i), IO("session.put", i)>>

\* #createSessionForUser: the calls it makes on the session, in order
createSessionForUserCalls(i) ==
  <<IO("session.put", i), IO("session.regenerate", i)>>

\* #authenticateViaRememberCookie after "await findById"
rememberUserFound(r, i) ==
  /\ i \in DOMAIN calls[r]
  /\ calls[r][i].pc = "findByIdRemember"
  /\ LET f == calls[r][i]
         providerUser == findById(f.userId[1])
         userId == getId(providerUser[1])
         ok == authenticationSucceeded(guard[r], events[r], f.sessionId,
                                       getOriginal(providerUser[1]), f.token, i)
     IN
     IF providerUser = None THEN
       /\ events' = [events EXCEPT ![r] =
            Stamp(@, authenticationFailed(@, f.sessionId, i), Len(io[r]))]
       /\ calls' = [calls EXCEPT ![r][i].pc = "settled",
                                 ![r][i].result = E_UNAUTHORIZED_ACCESS]
       /\ UNCHANGED <<ctx, guard, io>>
     ELSE
       /\ ctx' = [ctx EXCEPT ![r] = createSessionForUser(@, userId)]
       /\ guard' = [guard EXCEPT ![r] = ok.guard]
       /\ events' = [events EXCEPT ![r] =
            Stamp(@, ok.events, Len(io[r]) + Len(createSessionForUserCalls(i)))]
       /\ io' = [io EXCEPT ![r] = @ \o createSessionForUserCalls(i)
                                    \o <<IO("recycleRememberToken", i)>>]
       /\ calls' = [calls EXCEPT ![r][i].pc = "recycleRememberToken"]
  /\ UNCHANGED <<auth, arrived, users, tokens, minted>>

\* A slip: the owner's id is passed where the token's identifier is expected
consumedIdentifier_TokenableId(token) == token.tokenableId

\* The second argument of recycleRememberToken: "token.identifier"
consumedIdentifier(token) == token.identifier

\* #authenticateViaRememberCookie after "await recycleRememberToken"
rememberTokenRecycled(r, i) ==
  /\ i \in DOMAIN calls[r]
  /\ calls[r][i].pc = "recycleRememberToken"
  /\ LET f == calls[r][i]
         user == guard[r].user[1]
         new == recycledToken(user)
     IN
     /\ tokens' = recycleRememberToken(user, consumedIdentifier(f.token[1]))
     /\ minted' = new.identifier
     /\ ctx' = [ctx EXCEPT ![r] = createRememberMeCookie(@, CookieOf(new))]
     /\ io' = [io EXCEPT ![r] = Append(@, IO("response.encryptedCookie", i))]
     /\ calls' = [calls EXCEPT ![r][i].pc = "settled",
                               ![r][i].result = Returned(user)]
  /\ UNCHANGED <<auth, arrived, users, guard, events>>

\* The settled promise reaches the caller: authenticate()'s own caller, or
\* the try/catch of check()
settle(r, i) ==
  /\ i \in DOMAIN calls[r]
  /\ calls[r][i].pc = "settled"
  /\ calls' = [calls EXCEPT ![r][i].pc = "returned",
                            ![r][i].out = IF calls[r][i].op = "check"
                                          THEN checkOutcome(calls[r][i].result)
                                          ELSE calls[r][i].result]
  /\ UNCHANGED <<auth, arrived, users, tokens, minted, ctx, guard, events, io>>

Next ==
  \/ \E r \in Reqs : callAuthenticate(r)
  \/ \E r \in Reqs : check(r)
  \/ \E r \in Reqs : callGetUserOrFail(r)
  \/ \E r \in Reqs, i \in 1..MaxCalls : authenticateViaId(r, i)
  \/ \E r \in Reqs, i \in 1..MaxCalls : rememberTokenVerified(r, i)
  \/ \E r \in Reqs, i \in 1..MaxCalls : rememberUserFound(r, i)
  \/ \E r \in Reqs, i \in 1..MaxCalls : rememberTokenRecycled(r, i)
  \/ \E r \in Reqs, i \in 1..MaxCalls : settle(r, i)

Spec == Init /\ [][Next]_vars

\* ------------------------------------------------------------------------
\* Vocabulary of the properties

\* The call has finished: its promise is settled, or has reached the caller
Done(f) == f.pc \in {"settled", "returned"}

\* The call has finished and this is what its caller got
Got(f, outcome) == f.pc = "returned" /\ f.out = outcome

EventsNamed(r, evName) == {k \in DOMAIN events[r] : events[r][k].name = evName}
Attempted(r) == EventsNamed(r, "session_auth:authentication_attempted")
Succeeded(r) == EventsNamed(r, "session_auth:authentication_succeeded")
Failed(r) == EventsNamed(r, "session_auth:authentication_failed")

IOCount(r, op) == Cardinality({k \in DOMAIN io[r] : io[r][k].op = op})

\* What the request carried when it arrived
ArrivedUserId(r) == arrived[r].session[sessionKeyName]
ArrivedCookie(r) == arrived[r].requestCookies[rememberMeKeyName]
HasSessionId(r) == arrived[r].hasSession /\ Truthy(ArrivedUserId(r))
HasCookieOnly(r) ==
  arrived[r].hasSession /\ ~Truthy(ArrivedUserId(r)) /\ Truthy(ArrivedCookie(r))
HasNoCredentials(r) ==
  arrived[r].hasSession /\ ~Truthy(ArrivedUserId(r)) /\ ~Truthy(ArrivedCookie(r))

C2_RememberCookie ==
  \A r \in Reqs : \A i \in DOMAIN calls[r] :
    LET f == calls[r][i]
    IN (f.fresh /\ Done(f) /\ HasCookieOnly(r)
          /\ f.token # None /\ findById(f.token[1].tokenableId) # None)
         => LET u == getOriginal(findById(f.token[1].tokenableId)[1])
                new == ctx[r].responseCookies[rememberMeKeyName]
            IN /\ f.result = Returned(u)
               /\ (f.op = "authenticate" /\ f.pc = "returned" => f.out = Returned(u))
               /\ guard[r].isAuthenticated
               /\ guard[r].viaRemember
               /\ guard[r].user = Some(u)
               /\ ctx[r].session[sessionKeyName] = Some(u.id)
               /\ IOCount(r, "session.put") = 1
               /\ IOCount(r, "session.regenerate") = 1
               /\ ctx[r].sessionId # arrived[r].sessionId
               /\ IOCount(r, "response.encryptedCookie") = 1
               /\ new # None
               /\ new # ArrivedCookie(r)
               /\ \E t \in tokens : /\ CookieOf(t) = new[1]
                                    /\ t.tokenableId = u.id
                                    /\ t.identifier # f.token[1].identifier

\* C2 witness: a direct authenticate() has returned the user of a verified
\* remember cookie
C2_Witness ==
  \E r \in Reqs : \E i \in DOMAIN calls[r] :
    /\ calls[r][i].fresh /\ calls[r][i].op = "authenticate"
    /\ HasCookieOnly(r) /\ calls[r][i].token # None
    /\ calls[r][i].pc = "returned" /\ calls[r][i].out.kind = "user"
    /\ guard[r].viaRemember

\* C3: when the remember-cookie path fails (the provider rejects the cookie,
\* or the token's owner is not found), authenticate() fails Unauthorized,
\* exactly one authentication_failed event is emitted, and nothing else is
\* touched: no session put or regenerate, no recycle, no cookie written,
\* isAuthenticated false and user unset.
C3_RememberFails ==
  \A r \in Reqs : \A i \in DOMAIN calls[r] :
    LET f == calls[r][i]
    IN (f.fresh /\ Done(f) /\ HasCookieOnly(r)
          /\ (f.token = None \/ findById(f.token[1].tokenableId) = None))
         => /\ f.result = E_UNAUTHORIZED_ACCESS
            /\ (f.op = "authenticate" /\ f.pc = "returned"
                  => f.out = E_UNAUTHORIZED_ACCESS)
            /\ Cardinality(Failed(r)) = 1
            /\ ctx[r] = arrived[r]
            /\ IOCount(r, "session.put") = 0
            /\ IOCount(r, "session.regenerate") = 0
            /\ IOCount(r, "recycleRememberToken") = 0
            /\ IOCount(r, "response.encryptedCookie") = 0
            /\ (f.token # None => f.token[1] \in tokens)
            /\ ~guard[r].isAuthenticated
            /\ guard[r].user = None

\* C3 witness: both failures have happened to a direct authenticate(): the
\* cookie rejected, and the token's owner missing
C3_Witness ==
  \E r \in Reqs : \E i \in DOMAIN calls[r] :
    /\ calls[r][i].fresh /\ HasCookieOnly(r) /\ calls[r][i].token = None
    /\ Got(calls[r][i], E_UNAUTHORIZED_ACCESS) /\ calls[r][i].op = "authenticate"

C3_WitnessNoOwner ==
  \E r \in Reqs : \E i \in DOMAIN calls[r] :
    /\ calls[r][i].fresh /\ HasCookieOnly(r) /\ calls[r][i].token # None
    /\ Got(calls[r][i], E_UNAUTHORIZED_ACCESS) /\ calls[r][i].op = "authenticate"

\* ------------------------------------------------------------------------
\* C4: check() reports whether the request is authenticated: whenever a
\* check() has returned true, isAuthenticated is true and user is set.
C4_CheckTrueIsAuthenticated ==
  \A r \in Reqs : \A i \in DOMAIN calls[r] :
    (calls[r][i].op = "check" /\ Got(calls[r][i], True))
      => (guard[r].isAuthenticated /\ guard[r].user # None)

\* C5: check() never surfaces Unauthorized, and without the session
\* capability every check(), the first and any later one, propagates the
\* Configuration error.
C5_CheckPropagatesConfiguration ==
  \A r \in Reqs : \A i \in DOMAIN calls[r] :
    (calls[r][i].op = "check" /\ calls[r][i].pc = "returned")
      => /\ calls[r][i].out # E_UNAUTHORIZED_ACCESS
         /\ (~arrived[r].hasSession => calls[r][i].out = RuntimeException)

\* C6: authenticate() is idempotent per request: an authenticate() that
\* begins after an earlier authenticate() has returned yields the outcome the
\* earlier one did.
C6_AuthenticateIdempotent ==
  \A r \in Reqs : \A i \in DOMAIN calls[r], j \in DOMAIN calls[r] :
    (/\ i < j
     /\ calls[r][i].op = "authenticate" /\ calls[r][i].pc = "returned"
     /\ calls[r][j].op = "authenticate" /\ calls[r][j].pc = "returned"
     /\ calls[r][j].alone)
      => calls[r][j].out = calls[r][i].out

\* The operations on the session, the cookies and the provider
IOOps ==
  {"session.get", "session.put", "session.regenerate", "request.encryptedCookie",
   "response.encryptedCookie", "findById", "verifyRememberToken",
   "recycleRememberToken"}

\* The first invocation of authenticate() on the guard, direct or by check()
FirstAuthenticate(r) ==
  {i \in DOMAIN calls[r] :
     /\ calls[r][i].op \in {"authenticate", "check"}
     /\ \A k \in 1..(i - 1) : calls[r][k].op = "getUserOrFail"}

\* C7: the credential path runs at most once per guard: each of session
\* get/put/regenerate, cookie read/write, findById, verifyRememberToken and
\* recycleRememberToken happens at most once, all of them in the first
\* invocation of authenticate(); later calls do none.
C7_CredentialPathOnce ==
  \A r \in Reqs :
    /\ \A op \in IOOps : IOCount(r, op) <= 1
    /\ \A k \in DOMAIN io[r] : io[r][k].op \in IOOps /\ io[r][k].call \in FirstAuthenticate(r)
    /\ \A i \in DOMAIN calls[r] : calls[r][i].fresh => i \in FirstAuthenticate(r)

\* C7 witness: after a remember-cookie authentication that wrote the cookie,
\* a later authenticate(), check() or getUserOrFail() has returned too
C7_Witness ==
  \E r \in Reqs : \E i \in DOMAIN calls[r], j \in DOMAIN calls[r] :
    /\ IOCount(r, "response.encryptedCookie") = 1
    /\ IOCount(r, "findById") = 1
    /\ i # j
    /\ ~calls[r][i].fresh /\ calls[r][i].op = "check" /\ calls[r][i].pc = "returned"
    /\ ~calls[r][j].fresh /\ calls[r][j].op = "authenticate" /\ calls[r][j].pc = "returned"

\* The invocations of authenticate(), direct or by check(), that raised
\* Unauthorized
RaisedUnauthorized(r) ==
  {i \in DOMAIN calls[r] :
     /\ calls[r][i].op \in {"authenticate", "check"}
     /\ Done(calls[r][i])
     /\ calls[r][i].result = E_UNAUTHORIZED_ACCESS}

\* C8 as claimed: the number of authentication_failed events equals the
\* number of Unauthorized errors authenticate() has raised.
C8_FailedEventPerError ==
  \A r \in Reqs : Cardinality(Failed(r)) = Cardinality(RaisedUnauthorized(r))

\* C8 amended: the Unauthorized errors raised by the credential path (the
\* invocation that found authenticationAttempted false) are paired one to one
\* with the authentication_failed events, each event emitted by the time its
\* error is raised, before it reaches the caller; an Unauthorized raised by a
\* memoized repeat (through getUserOrFail) has no event.
C8_FailedEventPerAttemptError ==
  \A r \in Reqs :
    /\ \A i \in RaisedUnauthorized(r) :
         Cardinality({k \in Failed(r) : events[r][k].call = i})
           = IF calls[r][i].fresh THEN 1 ELSE 0
    /\ \A k \in Failed(r) :
         events[r][k].call \in RaisedUnauthorized(r) /\ calls[r][events[r][k].call].fresh
    /\ Cardinality(Failed(r))
         = Cardinality({i \in RaisedUnauthorized(r) : calls[r][i].fresh})

\* C8 witness: a failed attempt and a memoized repeat have both raised
\* Unauthorized to their callers, with one failure event
C8_Witness ==
  \E r \in Reqs : \E i \in DOMAIN calls[r], j \in DOMAIN calls[r] :
    /\ calls[r][i].fresh /\ Got(calls[r][i], E_UNAUTHORIZED_ACCESS)
    /\ ~calls[r][j].fresh /\ calls[r][j].op = "authenticate"
    /\ Got(calls[r][j], E_UNAUTHORIZED_ACCESS)
    /\ Cardinality(Failed(r)) = 1

C10_UserIffAuthenticated ==
  /\ [](\A r \in Reqs :
          /\ (guard[r].user # None) <=> guard[r].isAuthenticated
          /\ Cardinality(Succeeded(r)) <= 1)
  /\ [][\A r \in Reqs : guard[r].user # None => guard'[r].user = guard[r].user]_vars

\* C10 witness: the guard is authenticated with its one success event, and a
\* later call has returned the cached user
C10_Witness ==
  \E r \in Reqs : \E i \in DOMAIN calls[r] :
    /\ guard[r].isAuthenticated /\ guard[r].user # None
    /\ Cardinality(Succeeded(r)) = 1
    /\ ~calls[r][i].fresh /\ calls[r][i].pc = "returned" /\ calls[r][i].out.kind = "user"

\* ------------------------------------------------------------------------
\* Two requests that present the same remember cookie, each with its own
\* guard and context, sharing the provider; each request makes one call

ReplayInit ==
  /\ InitReqs({1, 2})
  /\ \A r \in Reqs : ctx[r].hasSession /\ Truthy(ctx[r].requestCookies[rememberMeKeyName])
  /\ \A r \in Reqs, q \in Reqs : ctx[r].requestCookies = ctx[q].requestCookies

ReplayNext ==
  \/ \E r \in Reqs : calls[r] = <<>> /\ callAuthenticate(r)
  \/ \E r \in Reqs : calls[r] = <<>> /\ check(r)
  \/ \E r \in Reqs : calls[r] = <<>> /\ callGetUserOrFail(r)
  \/ \E r \in Reqs, i \in 1..MaxCalls : authenticateViaId(r, i)
  \/ \E r \in Reqs, i \in 1..MaxCalls : rememberTokenVerified(r, i)
  \/ \E r \in Reqs, i \in 1..MaxCalls : rememberUserFound(r, i)
  \/ \E r \in Reqs, i \in 1..MaxCalls : rememberTokenRecycled(r, i)
  \/ \E r \in Reqs, i \in 1..MaxCalls : settle(r, i)

SpecReplay == ReplayInit /\ [][ReplayNext]_vars

\* The requests authenticated by the token: those with a success event that
\* carries it
AuthenticatedBy(token) ==
  {r \in Reqs : \E k \in Succeeded(r) : events[r][k].rememberMeToken = Some(token)}

\* The tokens the provider has verified for some request
VerifiedTokens ==
  UNION {{calls[q][m].token[1] : m \in {n \in DOMAIN calls[q] : calls[q][n].token # None}} :
           q \in Reqs}

\* The requests whose recycling of the token has completed: the cookie of
\* its replacement is written
RecycledBy(token) ==
  {r \in Reqs : \E i \in DOMAIN calls[r] :
     /\ calls[r][i].token = Some(token)
     /\ Done(calls[r][i])
     /\ calls[r][i].result.kind = "user"}

\* C11 as claimed: among requests presenting the same remember cookie at most
\* one is authenticated by its token, and once a request has authenticated
\* with it every later verification of the cookie fails Unauthorized.
C11_AtMostOneRequestPerToken ==
  /\ [](\A t \in VerifiedTokens : Cardinality(AuthenticatedBy(t)) <= 1)
  /\ [][\A r \in Reqs : \A i \in DOMAIN calls[r] :
          (/\ calls[r][i].pc = "verifyRememberToken"
           /\ calls'[r][i].pc # "verifyRememberToken"
           /\ \E t \in VerifiedTokens :
                CookieOf(t) = ArrivedCookie(r)[1] /\ AuthenticatedBy(t) # {})
            => /\ calls'[r][i].pc = "settled"
               /\ calls'[r][i].result = E_UNAUTHORIZED_ACCESS]_vars

\* C11 amended: once a request's recycleRememberToken for the token has
\* completed, the cookie no longer verifies, and every verification of it
\* that completes afterwards ends that authenticate() Unauthorized with the
\* guard unauthenticated and the session untouched; requests whose
\* verification completed before that recycle may each be authenticated by
\* the same token.
C11_NoReplayAfterRecycle ==
  /\ [](\A r \in Reqs : \A i \in DOMAIN calls[r] :
          (calls[r][i].token # None /\ r \in RecycledBy(calls[r][i].token[1]))
            => verifyRememberToken(CookieOf(calls[r][i].token[1])) = None)
  /\ [][\A r \in Reqs : \A i \in DOMAIN calls[r] :
          (/\ calls[r][i].pc = "verifyRememberToken"
           /\ calls'[r][i].pc # "verifyRememberToken"
           /\ \E t \in VerifiedTokens :
                CookieOf(t) = ArrivedCookie(r)[1] /\ RecycledBy(t) # {})
            => /\ calls'[r][i].pc = "settled"
               /\ calls'[r][i].result = E_UNAUTHORIZED_ACCESS
               /\ ~guard'[r].isAuthenticated
               /\ ctx'[r] = arrived[r]]_vars

\* C11 witness: one request has authenticated with the cookie and recycled
\* its token, and the other request, presenting the same cookie, got
\* Unauthorized
C11_Witness ==
  \E r \in Reqs, q \in Reqs :
    /\ r # q
    /\ HasCookieOnly(r) /\ HasCookieOnly(q)
    /\ \E i \in DOMAIN calls[r] :
         /\ calls[r][i].token # None
         /\ r \in RecycledBy(calls[r][i].token[1])
         /\ Got(calls[r][i], Returned(guard[r].user[1]))
    /\ \E j \in DOMAIN calls[q] :
         /\ calls[q][j].fresh /\ calls[q][j].op = "authenticate"
         /\ Got(calls[q][j], E_UNAUTHORIZED_ACCESS)
    /\ Cardinality(Failed(q)) = 1

\* ------------------------------------------------------------------------
\* Auth.use on the Auth object of one request

MaxUses == 4       \* calls of use on one Auth object

AuthInit ==
  /\ InitReqs({})
  /\ users = {}
  /\ tokens = {}

\* use(mapping): instantiates the mapping unless it is cached, returns the
\* cached instance
use(mapping) ==
  /\ Len(auth.uses) < MaxUses
  /\ LET miss == ~mappingsCacheHas(auth.mappingsCache, mapping)
         instance == makeMapping(mapping, Len(auth.made) + 1)
         cache == IF miss THEN mappingsCacheSet(auth.mappingsCache, mapping, instance)
                          ELSE auth.mappingsCache
     IN auth' = [mappingsCache |-> cache,
                 made |-> IF miss THEN Append(auth.made, mapping) ELSE auth.made,
                 traced |-> IF miss THEN Append(auth.traced, mapping) ELSE auth.traced,
                 uses |-> Append(auth.uses, [mapping |-> mapping, instance |-> cache[mapping]])]
  /\ UNCHANGED <<users, tokens, minted, ctx, arrived, guard, calls, events, io>>

AuthNext == \E mapping \in Mappings : use(mapping)

SpecAuth == AuthInit /\ [][AuthNext]_vars

\* The calls of use for the mapping, in order
UsesOf(mapping) == {k \in DOMAIN auth.uses : auth.uses[k].mapping = mapping}

\* C12: over any sequence of use(mapping) calls on one Auth, makeMapping is
\* invoked at most once per mapping name, every call with the same name
\* returns the instance the first such call created, and creating one
\* mapping never replaces the cached instance of another.
C12_SingletonPerMapping ==
  /\ [](\A mapping \in Mappings :
          /\ Cardinality({k \in DOMAIN auth.made : auth.made[k] = mapping}) <= 1
          /\ \A k \in UsesOf(mapping), n \in UsesOf(mapping) :
               /\ auth.uses[k].instance = auth.uses[n].instance
               /\ auth.uses[k].instance.mapping = mapping
          /\ (UsesOf(mapping) # {}
                => /\ mapping \in DOMAIN auth.mappingsCache
                   /\ \A k \in UsesOf(mapping) :
                        auth.uses[k].instance = auth.mappingsCache[mapping]))
  /\ [][\A mapping \in DOMAIN auth.mappingsCache :
          /\ mapping \in DOMAIN auth'.mappingsCache
          /\ auth'.mappingsCache[mapping] = auth.mappingsCache[mapping]]_vars

\* C12 witness: a mapping was used, another was created, and the first was
\* used again and returned the instance of its first use
C12_Witness ==
  \E k \in DOMAIN auth.uses, m \in DOMAIN auth.uses, n \in DOMAIN auth.uses :
    /\ k < m /\ m < n
    /\ auth.uses[k].mapping = auth.uses[n].mapping
    /\ auth.uses[m].mapping # auth.uses[k].mapping
    /\ auth.uses[k].instance = auth.uses[n].instance
    /\ Len(auth.made) = 2

\* ------------------------------------------------------------------------
\* The call that begins in this step, if one does
Begins(r, j) == j = Len(calls[r]) + 1 /\ Len(calls'[r]) = j

\* C13: once authenticate() has been invoked on a guard, every later
\* authenticate() (direct or by check()) returns the cached user if
\* isAuthenticated is true and fails Unauthorized otherwise, whatever the
\* first attempt came to, and changes no field of the guard.
C13_MemoizedRepeat ==
  /\ [][\A r \in Reqs : \A j \in 1..MaxCalls :
          (/\ Begins(r, j)
           /\ calls'[r][j].op \in {"authenticate", "check"}
           /\ FirstAuthenticate(r) # {})
            => /\ calls'[r][j].pc = "settled"
               /\ calls'[r][j].result =
                    IF guard[r].isAuthenticated THEN Returned(guard[r].user[1])
                                                ELSE E_UNAUTHORIZED_ACCESS
               /\ guard'[r] = guard[r]]_vars
  /\ [](\A r \in Reqs : \A j \in DOMAIN calls[r] :
          (calls[r][j].op = "authenticate" /\ calls[r][j].pc = "returned"
             /\ j \notin FirstAuthenticate(r))
            => /\ calls[r][j].out = calls[r][j].result
               /\ calls[r][j].out.kind \in {"user", "Unauthorized"})

\* C13 witness: repeats have returned Unauthorized after a first attempt that
\* threw the Configuration error, and after one that found no credentials
C13_Witness ==
  \E r \in Reqs : \E i \in DOMAIN calls[r], j \in DOMAIN calls[r] :
    /\ i < j
    /\ ~arrived[r].hasSession
    /\ Got(calls[r][i], RuntimeException)
    /\ calls[r][j].op = "authenticate" /\ Got(calls[r][j], E_UNAUTHORIZED_ACCESS)

C13_WitnessNoCredentials ==
  \E r \in Reqs : \E i \in DOMAIN calls[r], j \in DOMAIN calls[r] :
    /\ i < j
    /\ Got(calls[r][i], Undefined)
    /\ calls[r][j].op = "authenticate" /\ Got(calls[r][j], E_UNAUTHORIZED_ACCESS)

C13_WitnessCachedUser ==
  \E r \in Reqs : \E i \in DOMAIN calls[r], j \in DOMAIN calls[r] :
    /\ i < j
    /\ calls[r][i].fresh /\ calls[r][i].out.kind = "user"
    /\ calls[r][j].op = "authenticate" /\ Got(calls[r][j], calls[r][i].out)

\* ------------------------------------------------------------------------
\* C14: per guard, authentication_attempted is emitted at most once and
\* before any succeeded or failed event; succeeded and failed exclude each
\* other and together occur at most once; no event is emitted before the
\* first authenticate(), by a memoized repeat or by getUserOrFail().
C14_EventOrder ==
  /\ [](\A r \in Reqs :
          /\ Cardinality(Attempted(r)) <= 1
          /\ Cardinality(Succeeded(r)) + Cardinality(Failed(r)) <= 1
          /\ \A k \in Succeeded(r) \cup Failed(r) : \E a \in Attempted(r) : a < k
          /\ DOMAIN events[r] = Attempted(r) \cup Succeeded(r) \cup Failed(r)
          /\ \A k \in DOMAIN events[r] :
               /\ events[r][k].call \in FirstAuthenticate(r)
               /\ calls[r][events[r][k].call].fresh)
  /\ [][\A r \in Reqs : \A j \in 1..MaxCalls :
          (Begins(r, j) /\ (~calls'[r][j].fresh \/ calls'[r][j].op = "getUserOrFail"))
            => events'[r] = events[r]]_vars

\* C14 witness: an attempt that failed and one that succeeded, each followed
\* by a repeat and a getUserOrFail() that have returned
C14_Witness ==
  \E r \in Reqs : \E i \in DOMAIN calls[r], j \in DOMAIN calls[r] :
    /\ Len(events[r]) = 2 /\ Failed(r) # {}
    /\ ~calls[r][i].fresh /\ calls[r][i].op = "authenticate" /\ calls[r][i].pc = "returned"
    /\ calls[r][j].op = "getUserOrFail"

C14_WitnessSucceeded ==
  \E r \in Reqs : \E i \in DOMAIN calls[r], j \in DOMAIN calls[r] :
    /\ Len(events[r]) = 2 /\ Succeeded(r) # {}
    /\ ~calls[r][i].fresh /\ calls[r][i].op = "authenticate" /\ calls[r][i].pc = "returned"
    /\ calls[r][j].op = "getUserOrFail"

OpsOf(r) == [k \in DOMAIN io[r] |-> io[r][k].op]

IsPrefix(s, t) == Len(s) <= Len(t) /\ \A k \in DOMAIN s : s[k] = t[k]

\* The number of operations up to and including the (one) operation op
Upto(r, op) == CHOOSE k \in DOMAIN io[r] : io[r][k].op = op

\* The operations of a successful remember-cookie authentication
RememberOrder ==
  <<"session.get", "request.encryptedCookie", "verifyRememberToken", "findById",
    "session.put", "session.regenerate", "recycleRememberToken",
    "response.encryptedCookie">>

\* C16: a successful remember-cookie authentication verifies the token,
\* finds the user, puts the user id in the session, regenerates the session,
\* marks the guard authenticated and emits authentication_succeeded with the
\* consumed token, calls recycleRememberToken for the consumed token's
\* identifier and then writes the new cookie, in this order; the cookie is
\* never written before the recycle has returned and the session is never
\* regenerated before the id was put.
C16_RememberOrder ==
  \A r \in Reqs :
    HasCookieOnly(r)
      => /\ IsPrefix(OpsOf(r), RememberOrder)
         /\ \A k \in Succeeded(r) :
              /\ IOCount(r, "session.regenerate") = 1
              /\ events[r][k].at = Upto(r, "session.regenerate")
              /\ IOCount(r, "recycleRememberToken") = 1
              /\ events[r][k].at < Upto(r, "recycleRememberToken")
              /\ guard[r].isAuthenticated
              /\ events[r][k].rememberMeToken = calls[r][events[r][k].call].token
              /\ events[r][k].rememberMeToken # None
         /\ \A i \in DOMAIN calls[r] :
              LET f == calls[r][i]
              IN /\ (f.pc = "recycleRememberToken"
                       => /\ ctx[r].responseCookies[rememberMeKeyName] = None
                          /\ f.token[1] \in tokens
                          /\ Succeeded(r) # {})
                 /\ (f.fresh /\ Done(f) /\ f.result.kind = "user"
                       => /\ OpsOf(r) = RememberOrder
                          /\ Succeeded(r) # {}
                          /\ \A t \in tokens : t.identifier # f.token[1].identifier
                          /\ ctx[r].responseCookies[rememberMeKeyName] # None)

\* C16 witness: a remember-cookie authentication has run to its end
C16_Witness ==
  \E r \in Reqs : \E i \in DOMAIN calls[r] :
    /\ HasCookieOnly(r) /\ OpsOf(r) = RememberOrder
    /\ calls[r][i].fresh /\ calls[r][i].pc = "returned" /\ calls[r][i].out.kind \in {"user", "true"}
    /\ Succeeded(r) # {}

\* ------------------------------------------------------------------------
\* The calls of authenticate() or check() that began while an earlier call
\* was suspended awaiting the provider
Overlapping(r) ==
  {j \in DOMAIN calls[r] :
     calls[r][j].op \in {"authenticate", "check"} /\ calls[r][j].during # "none"}

\* C17: a second authenticate() or check() that begins while the first
\* authenticate() is suspended awaiting the provider yields the outcome the
\* first call eventually yields.
C17_OverlappingCallsAgree ==
  \A r \in Reqs : \A j \in Overlapping(r) : \A i \in 1..(j - 1) :
    (calls[r][i].fresh /\ Done(calls[r][i]) /\ Done(calls[r][j]))
      => calls[r][j].result = calls[r][i].result

\* ------------------------------------------------------------------------
\* C18: in every state of a guard, viaRemember implies isAuthenticated and
\* attemptedViaRemember; isAuthenticated implies authenticationAttempted;
\* attemptedViaRemember implies authenticationAttempted; isLoggedOut is false.
C18_FlagConsistency ==
  \A r \in Reqs :
    LET g == guard[r]
    IN /\ g.viaRemember => (g.isAuthenticated /\ g.attemptedViaRemember)
       /\ g.isAuthenticated => g.authenticationAttempted
       /\ g.attemptedViaRemember => g.authenticationAttempted
       /\ ~g.isLoggedOut

\* C18 witness: a guard authenticated by the remember cookie
C18_Witness ==
  \E r \in Reqs :
    /\ guard[r].viaRemember /\ guard[r].isAuthenticated
    /\ guard[r].attemptedViaRemember /\ guard[r].authenticationAttempted
    /\ Succeeded(r) # {}

\* C18 witness: a guard authenticated by the session id
C18_WitnessViaId ==
  \E r \in Reqs :
    /\ guard[r].isAuthenticated /\ ~guard[r].viaRemember
    /\ ~guard[r].attemptedViaRemember /\ Succeeded(r) # {}

\* C18 witness: a guard whose remember cookie was refused
C18_WitnessRefused ==
  \E r \in Reqs :
    /\ guard[r].attemptedViaRemember /\ ~guard[r].isAuthenticated
    /\ Failed(r) # {}

\* ------------------------------------------------------------------------
\* C19: in every state reached after an authenticate() call has finished,
\* normally or with an error, authenticationAttempted is true if and only if
\* exactly one authentication_attempted event has been emitted by the guard,
\* also when the session capability is missing from the context.
C19_FlagMatchesAttemptedEvent ==
  \A r \in Reqs :
    (\E i \in DOMAIN calls[r] :
       calls[r][i].op \in {"authenticate", "check"} /\ Done(calls[r][i]))
      => (guard[r].authenticationAttempted <=> Cardinality(Attempted(r)) = 1)

====
